---------------------------- MODULE Spec2Model ----------------------------
(***************************************************************************)
(* A model of two parts of the GRASS GIS library:                          *)
(*                                                                         *)
(*   - the raster cell value routines of gis/raster.c (G_raster_cmp,       *)
(*     G_set_raster_value_c/f/d, G_get_raster_value_c/f/d), specification  *)
(*     SpecRaster;                                                         *)
(*   - the history record routines of lib/gis/history.c (G_read_history,   *)
(*     G_write_history, G_short_history, G_command_history),               *)
(*     specification SpecHistory.                                          *)
(*                                                                         *)
(* Numbers.  A CELL is a 32-bit two's complement int.  A floating value    *)
(* (FCELL, DCELL) is a record [cls, m, e]:                                 *)
(*     cls = "fin"   the number m * 2^e, kept canonical (m odd, or m = 0   *)
(*                   and e = 0), so that equal numbers are equal records;  *)
(*     cls = "inf"   an infinity of sign m;                                *)
(*     cls = "null"  the reserved all-ones bit pattern (a NaN);            *)
(*     cls = "nan"   the default quiet NaN (not the reserved pattern);     *)
(*     cls = "nanx"  a DCELL NaN whose upper payload bits are all ones:    *)
(*                   not the reserved DCELL pattern, but the pattern a     *)
(*                   narrowing to float turns into the reserved FCELL one. *)
(* A FCELL keeps FMant significant bits, a DCELL DMant.                    *)
(*                                                                         *)
(* Text.  A string is a sequence of character codes.                       *)
(***************************************************************************)
EXTENDS Integers, Sequences, FiniteSets, TLC

VARIABLES
    rast,   \* the raster cell the engine works on: [type, v, from]
    rop,    \* the last raster operation: [op, type, arg, res, outcome]
    hist,   \* the caller's struct History
    ready,  \* hist has been through G_short_history or G_read_history
    file,   \* the "hist" resource of the map: NoFile, or its bytes
    wrote,  \* the record the last successful G_write_history wrote, or NoRec
    last,   \* the last history operation: [op, ret, arg, pre, hi, failed]
    failed, \* a G_command_history on hist failed, and no G_short_history or
            \* G_read_history came since
    nops    \* history operations done so far

vars == <<rast, rop, hist, ready, file, wrote, last, failed, nops>>

rvars == <<rast, rop>>
hvars == <<hist, ready, file, wrote, last, failed, nops>>

(***************************************************************************)
(*                        Part 1: raster cell values                       *)
(***************************************************************************)

\* RASTER_MAP_TYPE tags, the case labels of every switch of raster.c
CELL_TYPE == 0
FCELL_TYPE == 1
DCELL_TYPE == 2

Kinds == {CELL_TYPE, FCELL_TYPE, DCELL_TYPE}

\* a tag outside the enumeration, for the callers that break the contract
BadKinds == {DCELL_TYPE + 1}

\* width of CELL (int), and the significand widths of FCELL (float) and
\* DCELL (double)
CellBits == 32
FMant == 24
DMant == 53

CELL_MAX == (2^(CellBits - 2) - 1) * 2 + 1
CELL_MIN == (-CELL_MAX) - 1

\* largest binary exponent of a finite float and of a finite double: a
\* finite value is below 2^FMaxExp (2^DMaxExp)
FMaxExp == 128
DMaxExp == 1024

Abs(x) == IF x < 0 THEN -x ELSE x
Sgn(x) == IF x < 0 THEN -1 ELSE IF x > 0 THEN 1 ELSE 0

RECURSIVE BitLen(_)
BitLen(a) == IF a <= 0 THEN 0 ELSE 1 + BitLen(a \div 2)

RECURSIVE Canon(_, _)
Canon(m, e) ==
    IF m = 0 THEN <<0, 0>>
    ELSE IF m % 2 = 0 THEN Canon(m \div 2, e + 1)
    ELSE <<m, e>>

Fin(m, e) == [cls |-> "fin", m |-> Canon(m, e)[1], e |-> Canon(m, e)[2]]
FInf(s) == [cls |-> "inf", m |-> s, e |-> 0]
FNull == [cls |-> "null", m |-> 0, e |-> 0]
FNaN == [cls |-> "nan", m |-> 0, e |-> 0]
FNaNX == [cls |-> "nanx", m |-> 0, e |-> 0]

IsNaN(f) == f.cls \in {"null", "nan", "nanx"}

\* the finite value m * 2^e rounded to p significant bits, ties to even,
\* overflowing to an infinity at 2^emax
RoundTo(m, e, p, emax) ==
    LET a == Abs(m)
        n == BitLen(a)
        k == n - p
        q == a \div (2^k)
        r == a % (2^k)
        h == 2^(k - 1)
        q2 == IF r > h \/ (r = h /\ q % 2 = 1) THEN q + 1 ELSE q
        f == IF m = CELL_MIN \/ n <= p THEN Fin(m, e) ELSE Fin(Sgn(m) * q2, e + k)
    IN  IF f.m # 0 /\ BitLen(Abs(f.m)) + f.e > emax THEN FInf(Sgn(m)) ELSE f


\* C's conversions between the three representations.  A conversion whose
\* behaviour C leaves undefined (a floating value that is no number, or whose
\* integral part no int holds, cast to int) yields any of the values the
\* common builds produce, so the casts to CELL return a set.
CastCellToF(c) == RoundTo(c, 0, FMant, FMaxExp)
CastCellToD(c) == RoundTo(c, 0, DMant, DMaxExp)

\* the integral part of f is an int: below 2^(CellBits - 1) in size, or
\* -2^(CellBits - 1) itself
FitsCell(f) ==
    /\ f.cls = "fin"
    /\ \/ f.e < 0
       \/ /\ f.e < CellBits - 1
          /\ f.m <= CELL_MAX \div (2^f.e)
          /\ f.m >= CELL_MIN \div (2^f.e)
       \/ f.e = CellBits - 1 /\ f.m = -1

\* truncation toward zero of a finite value that fits
Trunc(f) ==
    IF f.e = CellBits - 1 THEN CELL_MIN
    ELSE IF f.e >= 0 THEN f.m * (2^f.e)
    ELSE IF -f.e >= CellBits THEN 0
    ELSE IF f.m >= 0 THEN f.m \div (2^(-f.e))
    ELSE -((-f.m) \div (2^(-f.e)))

UndefinedCell == {CELL_MIN, 0, CELL_MAX}

CastFloatToCell(f) == IF FitsCell(f) THEN {Trunc(f)} ELSE UndefinedCell

\* float to double is exact; the reserved FCELL pattern widens to a NaN
\* whose lower payload bits are zero, which is not the reserved DCELL one
CastFToD(f) == IF f.cls = "null" THEN FNaNX ELSE f

\* double to float rounds to FMant bits; a NaN keeps its upper payload bits
CastDToF(d) ==
    CASE d.cls = "fin" -> RoundTo(d.m, d.e, FMant, FMaxExp)
      [] d.cls = "nanx" -> FNull
      [] OTHER -> d

\* C's > and == on two floating values: false when either is a NaN
MagGt(a1, e1, a2, e2) ==
    LET d == e1 - e2
    IN  IF d >= 0
        THEN IF d >= CellBits - 1 THEN TRUE ELSE a1 > a2 \div (2^d)
        ELSE IF -d >= CellBits - 1 THEN FALSE ELSE ~(a2 > (a1 - 1) \div (2^(-d)))

FGt(x, y) ==
    IF IsNaN(x) \/ IsNaN(y) THEN FALSE
    ELSE IF x.cls = "inf" THEN x.m = 1 /\ y # x
    ELSE IF y.cls = "inf" THEN y.m = -1
    ELSE IF Sgn(x.m) # Sgn(y.m) THEN Sgn(x.m) > Sgn(y.m)
    ELSE IF x.m > 0 THEN MagGt(x.m, x.e, y.m, y.e)
    ELSE IF x.m < 0 THEN MagGt(-y.m, y.e, -x.m, x.e)
    ELSE FALSE

FEq(x, y) == ~IsNaN(x) /\ ~IsNaN(y) /\ x = y

(***************************************************************************)
(* The null codec (null_val.c).  The integer sentinel is the most negative *)
(* int; the floating sentinels are the reserved all-ones patterns.         *)
(***************************************************************************)
CellNull == CELL_MIN

G_is_c_null_value(c) == c = CellNull
G_is_f_null_value(f) == f.cls = "null"
G_is_d_null_value(d) == d.cls = "null"

NullOf(data_type) == IF data_type = CELL_TYPE THEN CellNull ELSE FNull

\* v is the value a pointer of kind data_type points at
G_is_null_value(v, data_type) ==
    CASE data_type = CELL_TYPE -> G_is_c_null_value(v)
      [] data_type = FCELL_TYPE -> G_is_f_null_value(v)
      [] data_type = DCELL_TYPE -> G_is_d_null_value(v)
      [] OTHER -> FALSE

\* a cell is [type, v]: the kind it was last written as, and the value
Cell(t, v) == [type |-> t, v |-> v]

\* the cell after G_set_null_value(rast, 1, data_type)
G_set_null_value(cell, data_type) ==
    IF data_type \in Kinds THEN Cell(data_type, NullOf(data_type)) ELSE cell

(***************************************************************************)
(* raster.c                                                                *)
(***************************************************************************)
\* the switch of G_raster_cmp, reached when neither value is null
CmpValues(v1, v2, data_type) ==
    CASE data_type = CELL_TYPE ->
            IF v1 > v2 THEN 1 ELSE IF v1 = v2 THEN 0 ELSE -1
      [] data_type \in {FCELL_TYPE, DCELL_TYPE} ->
            IF FGt(v1, v2) THEN 1 ELSE IF FEq(v1, v2) THEN 0 ELSE -1
      [] OTHER -> 0

G_raster_cmp_null_greater(v1, v2, data_type) ==
    IF G_is_null_value(v1, data_type)
    THEN IF G_is_null_value(v2, data_type) THEN 0 ELSE 1
    ELSE IF G_is_null_value(v2, data_type) THEN -1
    ELSE CmpValues(v1, v2, data_type)

G_raster_cmp(v1, v2, data_type) ==
    IF G_is_null_value(v1, data_type)
    THEN IF G_is_null_value(v2, data_type) THEN 0 ELSE -1
    ELSE IF G_is_null_value(v2, data_type) THEN 1
    ELSE CmpValues(v1, v2, data_type)

\* The set_ routines return the set of cells the call may leave behind (one
\* cell unless a cast is undefined); the get_ routines the set of values
\* the call may return.
G_set_raster_value_c_nocheck(cell, cval, data_type) ==
    CASE data_type = CELL_TYPE -> {Cell(CELL_TYPE, cval)}
      [] data_type = FCELL_TYPE -> {Cell(FCELL_TYPE, CastCellToF(cval))}
      [] data_type = DCELL_TYPE -> {Cell(DCELL_TYPE, CastCellToD(cval))}
      [] OTHER -> {cell}

G_set_raster_value_c(cell, cval, data_type) ==
    IF G_is_c_null_value(cval) THEN {G_set_null_value(cell, data_type)}
    ELSE CASE data_type = CELL_TYPE -> {Cell(CELL_TYPE, cval)}
           [] data_type = FCELL_TYPE -> {Cell(FCELL_TYPE, CastCellToF(cval))}
           [] data_type = DCELL_TYPE -> {Cell(DCELL_TYPE, CastCellToD(cval))}
           [] OTHER -> {cell}

G_set_raster_value_f(cell, fval, data_type) ==
    IF G_is_f_null_value(fval) THEN {G_set_null_value(cell, data_type)}
    ELSE CASE data_type = CELL_TYPE ->
                {Cell(CELL_TYPE, c) : c \in CastFloatToCell(fval)}
           [] data_type = FCELL_TYPE -> {Cell(FCELL_TYPE, fval)}
           [] data_type = DCELL_TYPE -> {Cell(DCELL_TYPE, CastFToD(fval))}
           [] OTHER -> {cell}

G_set_raster_value_d(cell, dval, data_type) ==
    IF G_is_d_null_value(dval) THEN {G_set_null_value(cell, data_type)}
    ELSE CASE data_type = CELL_TYPE ->
                {Cell(CELL_TYPE, c) : c \in CastFloatToCell(dval)}
           [] data_type = FCELL_TYPE -> {Cell(FCELL_TYPE, CastDToF(dval))}
           [] data_type = DCELL_TYPE -> {Cell(DCELL_TYPE, dval)}
           [] OTHER -> {cell}

G_get_raster_value_c_no_fcell(v, data_type) ==
    IF G_is_null_value(v, data_type) THEN {CellNull}
    ELSE CASE data_type = CELL_TYPE -> {v}
           [] data_type = DCELL_TYPE -> CastFloatToCell(v)
           [] OTHER -> {0}

G_get_raster_value_c(v, data_type) ==
    IF G_is_null_value(v, data_type) THEN {CellNull}
    ELSE CASE data_type = CELL_TYPE -> {v}
           [] data_type = FCELL_TYPE -> CastFloatToCell(v)
           [] data_type = DCELL_TYPE -> CastFloatToCell(v)
           [] OTHER -> {0}

G_get_raster_value_f(v, data_type) ==
    IF G_is_null_value(v, data_type) THEN {FNull}
    ELSE CASE data_type = CELL_TYPE -> {CastCellToF(v)}
           [] data_type = FCELL_TYPE -> {v}
           [] data_type = DCELL_TYPE -> {CastDToF(v)}
           [] OTHER -> {Fin(0, 0)}

G_get_raster_value_d(v, data_type) ==
    IF G_is_null_value(v, data_type) THEN {FNull}
    ELSE CASE data_type = CELL_TYPE -> {CastCellToD(v)}
           [] data_type = FCELL_TYPE -> {CastFToD(v)}
           [] data_type = DCELL_TYPE -> {v}
           [] OTHER -> {Fin(0, 0)}

(***************************************************************************)
(* The values the model feeds the engine: integers around zero, around the *)
(* first integers a float cannot hold (2^FMant) and at both ends of int;   *)
(* for the floating kinds their images, the special values, halves, and    *)
(* numbers no int (2^31) or no float (2^128) holds.                        *)
(***************************************************************************)
Spread == 1

\* CELL_MAX - 2^(CellBits - FMant - 1) is the largest int but one that a
\* float holds
CellCentres ==
    {0, 2^FMant, -(2^FMant), CELL_MAX - 2^(CellBits - FMant - 1),
     CELL_MAX - Spread, CELL_MIN + Spread}

CellInputs == {c + d : c \in CellCentres, d \in (-Spread)..Spread}

Halves == {Fin(m, -1) : m \in (-(Spread + 1))..(Spread + 1)}

FInputs ==
    {FNull, FNaN, FInf(1), FInf(-1), Fin(1, CellBits - 1)}
        \cup {CastCellToF(c) : c \in CellInputs} \cup Halves

DInputs ==
    {FNull, FNaN, FNaNX, FInf(1), FInf(-1), Fin(1, CellBits - 1),
     Fin(1, FMaxExp), Fin(2^(FMant + 1) + 1, -1)}
        \cup {CastCellToD(c) : c \in CellInputs} \cup Halves

Inputs(data_type) ==
    CASE data_type = CELL_TYPE -> CellInputs
      [] data_type = FCELL_TYPE -> FInputs
      [] data_type = DCELL_TYPE -> DInputs

KindInputs == Kinds \cup BadKinds

\* the values passed along with a tag outside the enumeration: the null and
\* one more
ArgsFor(t, S, null) == IF t \in Kinds THEN S ELSE {null, CHOOSE v \in S : v # null}

NoOp == [op |-> "none", type |-> CELL_TYPE, arg |-> 0, res |-> 0, outcome |-> "none"]

Returned(op, t, arg, res) ==
    [op |-> op, type |-> t, arg |-> arg, res |-> res, outcome |-> "returned"]

\* a write through a tag outside the enumeration leaves the cell as it was
\* from remembers the integer a cell was set from
Written(cell, op, t, arg) ==
    [cell |-> cell,
     from |-> IF t \notin Kinds THEN rast.from
              ELSE IF op = "set_c" THEN [op |-> op, arg |-> arg]
              ELSE [op |-> op, arg |-> 0]]

\* the caller passes the kind of its buffer, or (breaking the contract) a
\* tag outside the enumeration
TagFor(t) == t = rast.cell.type \/ t \in BadKinds

InitRasterCell ==
    /\ \E t \in Kinds : \E v \in Inputs(t) :
          rast = [cell |-> Cell(t, v), from |-> [op |-> "init", arg |-> 0]]
    /\ rop = NoOp

SetNull(t) ==
    /\ rast' = Written(G_set_null_value(rast.cell, t), "set_null", t, 0)
    /\ rop' = Returned("set_null", t, 0, 0)
    /\ UNCHANGED hvars

SetValueC(cval, t) ==
    /\ \E c \in G_set_raster_value_c(rast.cell, cval, t) :
          rast' = Written(c, "set_c", t, cval)
    /\ rop' = Returned("set_c", t, cval, 0)
    /\ UNCHANGED hvars

SetValueF(fval, t) ==
    /\ \E c \in G_set_raster_value_f(rast.cell, fval, t) :
          rast' = Written(c, "set_f", t, fval)
    /\ rop' = Returned("set_f", t, fval, 0)
    /\ UNCHANGED hvars

SetValueD(dval, t) ==
    /\ \E c \in G_set_raster_value_d(rast.cell, dval, t) :
          rast' = Written(c, "set_d", t, dval)
    /\ rop' = Returned("set_d", t, dval, 0)
    /\ UNCHANGED hvars

GetValueC(t) ==
    /\ TagFor(t)
    /\ \E r \in G_get_raster_value_c(rast.cell.v, t) :
          rop' = Returned("get_c", t, rast.cell.v, r)
    /\ UNCHANGED <<rast, hvars>>

GetValueF(t) ==
    /\ TagFor(t)
    /\ \E r \in G_get_raster_value_f(rast.cell.v, t) :
          rop' = Returned("get_f", t, rast.cell.v, r)
    /\ UNCHANGED <<rast, hvars>>

GetValueD(t) ==
    /\ TagFor(t)
    /\ \E r \in G_get_raster_value_d(rast.cell.v, t) :
          rop' = Returned("get_d", t, rast.cell.v, r)
    /\ UNCHANGED <<rast, hvars>>

\* v1 is the cell, v2 a second value of the same kind
RasterCmp(v2, t) ==
    /\ TagFor(t)
    /\ rop' = Returned("cmp", t, <<rast.cell.v, v2>>,
                       G_raster_cmp(rast.cell.v, v2, t))
    /\ UNCHANGED <<rast, hvars>>

NextRaster ==
    \/ \E t \in Kinds : SetNull(t)
    \/ \E t \in KindInputs : \E c \in ArgsFor(t, CellInputs, CellNull) :
          SetValueC(c, t)
    \/ \E t \in KindInputs : \E f \in ArgsFor(t, FInputs, FNull) :
          SetValueF(f, t)
    \/ \E t \in KindInputs : \E d \in ArgsFor(t, DInputs, FNull) :
          SetValueD(d, t)
    \/ \E t \in KindInputs : GetValueC(t)
    \/ \E t \in KindInputs : GetValueF(t)
    \/ \E t \in KindInputs : GetValueD(t)
    \/ \E t \in KindInputs :
          \E v2 \in ArgsFor(t, Inputs(rast.cell.type), NullOf(rast.cell.type)) :
             RasterCmp(v2, t)

(***************************************************************************)
(*                        Part 2: history records                          *)
(***************************************************************************)

\* sizes of struct History (include/gis.h): edhist[MAXEDLINES][RECORD_LEN]
RECORD_LEN == 80
MAXEDLINES == 50

\* G_command_history: a command of fewer than ONE_LINE characters goes on one
\* line, a longer one is cut into pieces of WRAP characters
ONE_LINE == 70
WRAP == 68

\* character codes: '\n', '\\', '%', ' '
NL == 10
BACKSLASH == 92
PERCENT == 37
SPACE == 32

Printable(c) == c >= SPACE /\ c <= 126

Fields ==
    <<"mapid", "title", "mapset", "creator", "maptype", "datsrc_1",
      "datsrc_2", "keywrd">>

\* G_zero(hist, sizeof(struct History))
ZeroHist ==
    [mapid |-> <<>>, title |-> <<>>, mapset |-> <<>>, creator |-> <<>>,
     maptype |-> <<>>, datsrc_1 |-> <<>>, datsrc_2 |-> <<>>, keywrd |-> <<>>,
     edlinecnt |-> 0, edhist |-> [i \in 1..MAXEDLINES |-> <<>>]]

\* the resource: absent, or present with its bytes
NoFile == [exists |-> FALSE, bytes |-> <<>>]
FileOf(bytes) == [exists |-> TRUE, bytes |-> bytes]

\* nothing written yet
NoRec == [ok |-> FALSE, rec |-> ZeroHist]

\* hist->edhist[idx] = s, for a C index idx inside the array
Store(h, idx, s) ==
    [h EXCEPT !.edhist = [i \in 1..MAXEDLINES |-> IF i = idx + 1 THEN s ELSE @[i]]]

Max(a, b) == IF a > b THEN a ELSE b

\* G_getl(buf, n, fd) at offset pos (1-based) of the bytes: fgets takes
\* characters up to and including a newline but at most n - 1 of them, and
\* the newline is then dropped.  [ok, line, pos]: pos is the next offset.
Getl(bytes, pos, n) ==
    LET len == Len(bytes)
        nls == {k \in pos..len : bytes[k] = NL}
        nl == IF nls = {} THEN len + 1
              ELSE CHOOSE k \in nls : \A j \in nls : k <= j
    IN  IF pos > len THEN [ok |-> FALSE, line |-> <<>>, pos |-> pos]
        ELSE IF nl - pos <= n - 2
        THEN [ok |-> TRUE, line |-> SubSeq(bytes, pos, nl - 1),
              pos |-> IF nl > len THEN nl ELSE nl + 1]
        ELSE [ok |-> TRUE, line |-> SubSeq(bytes, pos, pos + n - 2),
              pos |-> pos + n - 1]

\* G_ascii_check: every non-printable character gives way to a placeholder
G_ascii_check(str) ==
    [i \in 1..Len(str) |-> IF Printable(str[i]) THEN str[i] ELSE SPACE]

RECURSIVE ReadLines_one_more(_, _, _)
ReadLines_one_more(h, bytes, pos) ==
    LET g == Getl(bytes, pos, RECORD_LEN)
    IN  IF h.edlinecnt <= MAXEDLINES /\ g.ok
        THEN ReadLines_one_more(
                 [Store(h, h.edlinecnt, G_ascii_check(g.line))
                     EXCEPT !.edlinecnt = @ + 1],
                 bytes, g.pos)
        ELSE h

\* the while loop of G_read_history, from offset pos on
RECURSIVE ReadLines(_, _, _)
ReadLines(h, bytes, pos) ==
    LET g == Getl(bytes, pos, RECORD_LEN)
    IN  IF h.edlinecnt < MAXEDLINES /\ g.ok
        THEN ReadLines(
                 [Store(h, h.edlinecnt, G_ascii_check(g.line))
                     EXCEPT !.edlinecnt = @ + 1],
                 bytes, g.pos)
        ELSE h

\* the eight G_getl calls of G_read_history, from field k on
RECURSIVE ReadFields(_, _, _, _)
ReadFields(h, bytes, k, pos) ==
    LET g == Getl(bytes, pos, RECORD_LEN)
    IN  IF k > Len(Fields)
        THEN [ret |-> 0, hist |-> ReadLines([h EXCEPT !.edlinecnt = 0], bytes, pos)]
        ELSE IF ~g.ok THEN [ret |-> -1, hist |-> h]
        ELSE ReadFields([h EXCEPT ![Fields[k]] = G_ascii_check(g.line)],
                        bytes, k + 1, g.pos)

\* a reader that clears the record again when a line is missing
G_read_history_clearing(f) ==
    IF ~f.exists THEN [ret |-> -1, hist |-> ZeroHist]
    ELSE IF ReadFields(ZeroHist, f.bytes, 1, 1).ret = 0
    THEN ReadFields(ZeroHist, f.bytes, 1, 1)
    ELSE [ret |-> -1, hist |-> ZeroHist]

\* [ret, hist]: the return value and the caller's record after the call
G_read_history(f) ==
    IF ~f.exists THEN [ret |-> -1, hist |-> ZeroHist]
    ELSE ReadFields(ZeroHist, f.bytes, 1, 1)

\* fprintf(fd, "%s\n", s) for each of the strings
RECURSIVE PrintLines(_)
PrintLines(ss) ==
    IF ss = <<>> THEN <<>> ELSE Head(ss) \o <<NL>> \o PrintLines(Tail(ss))

\* the bytes G_write_history writes to the new file
HistBytes(h) ==
    PrintLines([k \in 1..Len(Fields) |-> h[Fields[k]]])
        \o PrintLines([i \in 1..h.edlinecnt |-> h.edhist[i]])

\* [ret, file]; created: whether G_fopen_new could create the file
G_write_history(h, f, created) ==
    IF ~created THEN [ret |-> -1, file |-> f]
    ELSE [ret |-> 0, file |-> FileOf(HistBytes(h))]

\* what the environment answers: G_date(), G_mapset(), G_whoami(),
\* G_program_name()
DateText == <<68>>
MapsetText == <<77>>
WhoText == <<87>>
ProgramText == <<80>>

\* "generated by "
GeneratedBy == <<103, 101, 110, 101, 114, 97, 116, 101, 100, 32, 98, 121, 32>>

\* strncpy(dst, src, n) for a source shorter than n (a longer one leaves dst
\* without its terminator; ShortHistory keeps to shorter ones)
Strncpy(src, n) == SubSeq(src, 1, IF Len(src) < n THEN Len(src) ELSE n)

G_short_history(h, name, type) ==
    [h EXCEPT !.mapid = Strncpy(DateText, RECORD_LEN),
              !.title = Strncpy(name, RECORD_LEN),
              !.mapset = Strncpy(MapsetText, RECORD_LEN),
              !.creator = Strncpy(WhoText, RECORD_LEN),
              !.maptype = Strncpy(type, RECORD_LEN),
              !.keywrd = GeneratedBy \o ProgramText,
              !.datsrc_1 = <<>>,
              !.datsrc_2 = <<>>,
              !.edlinecnt = 0]

\* what a conversion specification prints when sprintf is given no argument
\* for it: the digits of whatever the argument register holds
UndefinedDigits == {<<48>>, <<45, 49>>}

\* sprintf(buf, fmt) with no further argument: the texts buf may hold.  "%%"
\* prints one '%'; any other conversion is undefined for want of an argument.
RECURSIVE Sprintf(_)
Sprintf(fmt) ==
    IF fmt = <<>> THEN {<<>>}
    ELSE IF Head(fmt) # PERCENT
    THEN {<<Head(fmt)>> \o r : r \in Sprintf(Tail(fmt))}
    ELSE IF Len(fmt) = 1 THEN UndefinedDigits
    ELSE IF fmt[2] = PERCENT
    THEN {<<PERCENT>> \o r : r \in Sprintf(Tail(Tail(fmt)))}
    ELSE {d \o r : d \in UndefinedDigits, r \in Sprintf(Tail(Tail(fmt)))}

\* hist->edhist[hist->edlinecnt] = s; hist->edlinecnt++
Append1(h, s) == [Store(h, h.edlinecnt, s) EXCEPT !.edlinecnt = @ + 1]

RECURSIVE WrapLines_no_marker(_, _, _, _)
WrapLines_no_marker(h, cmdlin, j, hi) ==
    LET cmdlen == Len(cmdlin)
        h2 == Append1(h, SubSeq(cmdlin, j + 1, j + WRAP))
    IN  IF cmdlen - j > ONE_LINE
        THEN IF h2.edlinecnt > MAXEDLINES - 2
             THEN [ret |-> 2, hist |-> h2, hi |-> h.edlinecnt]
             ELSE WrapLines_no_marker(h2, cmdlin, j + WRAP, h.edlinecnt)
        ELSE IF cmdlen - j > 0
        THEN [ret |-> 0, hist |-> Append1(h, SubSeq(cmdlin, j + 1, cmdlen)),
              hi |-> h.edlinecnt]
        ELSE [ret |-> 0, hist |-> h, hi |-> hi]

\* the while loop of G_command_history and the lines after it, with j the
\* position in the command line; hi is the highest index written so far
RECURSIVE WrapLines(_, _, _, _)
WrapLines(h, cmdlin, j, hi) ==
    LET cmdlen == Len(cmdlin)
        h2 == Append1(h, SubSeq(cmdlin, j + 1, j + WRAP) \o <<BACKSLASH>>)
    IN  IF cmdlen - j > ONE_LINE
        THEN IF h2.edlinecnt > MAXEDLINES - 2
             THEN [ret |-> 2, hist |-> h2, hi |-> h.edlinecnt]
             ELSE WrapLines(h2, cmdlin, j + WRAP, h.edlinecnt)
        ELSE IF cmdlen - j > 0
        THEN [ret |-> 0, hist |-> Append1(h, SubSeq(cmdlin, j + 1, cmdlen)),
              hi |-> h.edlinecnt]
        ELSE [ret |-> 0, hist |-> h, hi |-> hi]

\* G_command_history after its first test
CommandLines(h, cmdlin) ==
    LET h1 == IF h.edlinecnt > 0 THEN Append1(h, <<>>) ELSE h
        hi1 == IF h.edlinecnt > 0 THEN h.edlinecnt ELSE -1
    IN  IF Len(cmdlin) < ONE_LINE
        THEN {[ret |-> 0, hist |-> Append1(h1, s), hi |-> h1.edlinecnt] :
                 s \in Sprintf(cmdlin)}
        ELSE {WrapLines(h1, cmdlin, 0, hi1)}

G_command_history_late(h, cmdlin) ==
    IF h.edlinecnt > MAXEDLINES - 1
    THEN {[ret |-> 1, hist |-> h, hi |-> -1]}
    ELSE CommandLines(h, cmdlin)

\* the set of [ret, hist, hi] the call may end with, cmdlin being what
\* G_recreate_command() returns
G_command_history(h, cmdlin) ==
    IF h.edlinecnt > MAXEDLINES - 2
    THEN {[ret |-> 1, hist |-> h, hi |-> -1]}
    ELSE CommandLines(h, cmdlin)

(***************************************************************************)
(* What the model feeds the history routines.                              *)
(***************************************************************************)
MaxOps == 3
LongCmd == 200

\* a text of n characters, no two neighbours alike
Text(n) == [i \in 1..n |-> 97 + (i % 7)]

Names == {<<109>>, Text(RECORD_LEN - 1)}
Types == {<<114>>}

Commands ==
    {Text(n) : n \in {3, ONE_LINE - 1, ONE_LINE, ONE_LINE + 1,
                      ONE_LINE + WRAP + 1, LongCmd}}
        \cup {<<97, PERCENT, PERCENT, 50>>, <<PERCENT, 100>>}

\* header line k and comment line i of the files the model starts from
HeaderLine(k) == <<72, 48 + k>>
CommentLine(i) == <<67, 65 + (i \div 10), 48 + (i % 10)>>

\* a file of nh header lines and nc comment lines
HistFile(nh, nc) ==
    FileOf(PrintLines([k \in 1..nh |-> HeaderLine(k)])
               \o PrintLines([i \in 1..nc |-> CommentLine(i)]))

InitialFiles ==
    {NoFile, FileOf(<<>>), HistFile(3, 0),
     \* seven lines and the eighth without its newline
     FileOf(HistFile(7, 0).bytes \o HeaderLine(8)),
     \* seven lines, the second of RECORD_LEN - 1 characters
     FileOf(HeaderLine(1) \o <<NL>> \o Text(RECORD_LEN - 1) \o <<NL>>
                \o PrintLines([k \in 1..5 |-> HeaderLine(k + 2)])),
     \* a bell character in the first line
     FileOf(<<72, 7, 73, NL>> \o HistFile(7, 2).bytes),
     \* more comment lines than fit, the first with a bell character
     FileOf(HistFile(Len(Fields), 0).bytes \o <<67, 7, NL>>
                \o HistFile(0, MAXEDLINES + 1).bytes),
     \* more comment lines than fit, the first of RECORD_LEN - 1 characters
     FileOf(HistFile(Len(Fields), 0).bytes \o Text(RECORD_LEN - 1) \o <<NL>>
                \o HistFile(0, MAXEDLINES).bytes)}
        \cup {HistFile(Len(Fields) - 1, 0)}
        \cup {HistFile(Len(Fields), n) :
                 n \in {0, 1, MAXEDLINES - 3, MAXEDLINES - 2, MAXEDLINES - 1,
                        MAXEDLINES, MAXEDLINES + 1}}

NoLast ==
    [op |-> "none", ret |-> 0, arg |-> <<>>, pre |-> ZeroHist, hi |-> -1,
     failed |-> FALSE]

\* the record of a call: its return value and argument, the record before
\* it, the highest index of edhist it wrote (-1: none) and whether an earlier
\* G_command_history had failed
Did(op, ret, arg, hi) ==
    [op |-> op, ret |-> ret, arg |-> arg, pre |-> hist, hi |-> hi,
     failed |-> failed]

\* the struct as the caller declares it: not yet initialised
InitHistoryRecord ==
    /\ hist = ZeroHist
    /\ ready = FALSE
    /\ file \in InitialFiles
    /\ wrote = NoRec
    /\ last = NoLast
    /\ failed = FALSE
    /\ nops = 0

ShortHistory(name, type) ==
    /\ nops < MaxOps
    /\ Len(name) < RECORD_LEN /\ Len(type) < RECORD_LEN
    /\ hist' = G_short_history(hist, name, type)
    /\ ready' = TRUE
    /\ last' = Did("short", 0, name, -1)
    /\ failed' = FALSE
    /\ nops' = nops + 1
    /\ UNCHANGED <<file, wrote, rvars>>

ReadHistory ==
    /\ nops < MaxOps
    /\ LET r == G_read_history(file)
       IN  /\ hist' = r.hist
           /\ last' = Did("read", r.ret, <<>>, r.hist.edlinecnt - 1)
    /\ ready' = TRUE
    /\ failed' = FALSE
    /\ nops' = nops + 1
    /\ UNCHANGED <<file, wrote, rvars>>

\* "The hist structure should first be initialized"
WriteHistory(created) ==
    /\ nops < MaxOps
    /\ ready
    /\ LET w == G_write_history(hist, file, created)
       IN  /\ file' = w.file
           /\ wrote' = IF w.ret = 0 THEN [ok |-> TRUE, rec |-> hist] ELSE wrote
           /\ last' = Did("write", w.ret, <<>>, -1)
    /\ nops' = nops + 1
    /\ UNCHANGED <<hist, ready, failed, rvars>>

CommandHistory(cmdlin) ==
    /\ nops < MaxOps
    /\ ready
    /\ \E r \in G_command_history(hist, cmdlin) :
          /\ hist' = r.hist
          /\ last' = Did("command", r.ret, cmdlin, r.hi)
          /\ failed' = (failed \/ r.ret # 0)
    /\ nops' = nops + 1
    /\ UNCHANGED <<ready, file, wrote, rvars>>

NextHistory ==
    \/ \E name \in Names, type \in Types : ShortHistory(name, type)
    \/ ReadHistory
    \/ \E created \in BOOLEAN : WriteHistory(created)
    \/ \E cmdlin \in Commands : CommandHistory(cmdlin)

(***************************************************************************)
(* The two specifications.  Each keeps the other part's variables at rest. *)
(***************************************************************************)
InitRaster ==
    /\ InitRasterCell
    /\ hist = ZeroHist /\ ready = FALSE /\ file = NoFile /\ wrote = NoRec
    /\ last = NoLast /\ failed = FALSE /\ nops = 0

SpecRaster == InitRaster /\ [][NextRaster]_vars

InitHistory ==
    /\ InitHistoryRecord
    /\ rast = [cell |-> Cell(CELL_TYPE, 0), from |-> [op |-> "init", arg |-> 0]]
    /\ rop = NoOp

SpecHistory == InitHistory /\ [][NextHistory]_vars

(***************************************************************************)
(*                     Properties of the raster routines                   *)
(***************************************************************************)
SetOps == {"set_c", "set_f", "set_d"}
GetOps == {"get_c", "get_f", "get_d"}

\* the call rop records was a G_raster_cmp with a tag of the enumeration
CmpDone == rop.op = "cmp" /\ rop.type \in Kinds
CmpNull1 == G_is_null_value(rop.arg[1], rop.type)
CmpNull2 == G_is_null_value(rop.arg[2], rop.type)

\* C1 as stated: G_raster_cmp returns EQUAL (0) when both values are null,
\* GREATER (1) when only v1 is null and LESS (-1) when only v2 is null.
C1_NullSortsGreater ==
    CmpDone =>
        /\ (CmpNull1 /\ CmpNull2 => rop.res = 0)
        /\ (CmpNull1 /\ ~CmpNull2 => rop.res = 1)
        /\ (~CmpNull1 /\ CmpNull2 => rop.res = -1)

\* C1 amended: G_raster_cmp returns 0 when both values are null, -1 (LESS)
\* when only v1 is null and 1 (GREATER) when only v2 is null: a null sorts
\* below every non-null value.
C1_NullSortsLess ==
    CmpDone =>
        /\ (CmpNull1 /\ CmpNull2 => rop.res = 0)
        /\ (CmpNull1 /\ ~CmpNull2 => rop.res = -1)
        /\ (~CmpNull1 /\ CmpNull2 => rop.res = 1)

\* a null FCELL compared with a non-null one
C1_Witness ==
    /\ CmpDone /\ rop.type = FCELL_TYPE
    /\ CmpNull1 /\ ~CmpNull2 /\ rop.res = -1

SetArgIsNull ==
    CASE rop.op = "set_c" -> G_is_c_null_value(rop.arg)
      [] rop.op = "set_f" -> G_is_f_null_value(rop.arg)
      [] rop.op = "set_d" -> G_is_d_null_value(rop.arg)

\* C2: a null source of any representation leaves a cell that is null in
\* the destination kind, and reading a null cell of any kind gives the null
\* of the representation asked for.
C2_NullPropagates ==
    /\ rop.op \in SetOps /\ rop.type \in Kinds /\ SetArgIsNull
          => rast.cell.type = rop.type /\ G_is_null_value(rast.cell.v, rop.type)
    /\ rop.op \in GetOps /\ rop.type \in Kinds
            /\ G_is_null_value(rop.arg, rop.type)
          => rop.res = (IF rop.op = "get_c" THEN CellNull ELSE FNull)

\* a CELL cell made null by G_set_null_value and read as DCELL
C2_Witness ==
    /\ rop.op = "get_d" /\ rop.type = CELL_TYPE
    /\ rast.from.op = "set_null" /\ rop.arg = CellNull /\ rop.res = FNull

\* C3 as stated: a call with a tag outside the enumeration ends in a
\* DomainError, never in a returned value or a silent completion.
C3_BadKindFailsFast ==
    rop.op \in SetOps \cup GetOps \cup {"cmp"} /\ rop.type \notin Kinds
        => rop.outcome = "DomainError"

\* an integer whose significant bits fit the representation of the kind
OddPart(v) == Canon(v, 0)[1]
Representable(v, data_type) ==
    CASE data_type = CELL_TYPE -> TRUE
      [] data_type = FCELL_TYPE -> BitLen(Abs(OddPart(v))) <= FMant
      [] data_type = DCELL_TYPE -> BitLen(Abs(OddPart(v))) <= DMant

\* C4: a non-null integer that the kind represents exactly, stored with
\* G_set_raster_value_c and read with G_get_raster_value_c, comes back as it
\* was.
C4_IntegerRoundTrip ==
    /\ rop.op = "get_c" /\ rop.type \in Kinds
    /\ rast.from.op = "set_c" /\ rast.cell.type = rop.type
    /\ ~G_is_c_null_value(rast.from.arg)
    /\ Representable(rast.from.arg, rop.type)
    => rop.res = rast.from.arg

\* an integer of more than FMant bits that a float still holds, through FCELL
C4_Witness ==
    /\ rop.op = "get_c" /\ rop.type = FCELL_TYPE
    /\ rast.from.op = "set_c" /\ rast.cell.type = FCELL_TYPE
    /\ rast.from.arg >= 2^FMant
    /\ Representable(rast.from.arg, FCELL_TYPE)
    /\ rop.res = rast.from.arg

(***************************************************************************)
(*                    Properties of the history routines                   *)
(***************************************************************************)
\* the physical lines of a text: cut at every newline, a last line without
\* its newline included
RECURSIVE LinesFrom(_, _)
LinesFrom(bytes, pos) ==
    IF pos > Len(bytes) THEN <<>>
    ELSE LET nls == {k \in pos..Len(bytes) : bytes[k] = NL}
             nl == IF nls = {} THEN Len(bytes) + 1
                   ELSE CHOOSE k \in nls : \A j \in nls : k <= j
         IN  <<SubSeq(bytes, pos, nl - 1)>> \o LinesFrom(bytes, nl + 1)

LinesOf(f) == IF f.exists THEN LinesFrom(f.bytes, 1) ELSE <<>>

\* the first k records the line reader delivers from offset pos on
RECURSIVE RecordsFrom(_, _, _)
RecordsFrom(bytes, pos, k) ==
    LET g == Getl(bytes, pos, RECORD_LEN)
    IN  IF k = 0 \/ ~g.ok THEN <<>>
        ELSE <<g.line>> \o RecordsFrom(bytes, g.pos, k - 1)

RecordsOf(f, k) == IF f.exists THEN RecordsFrom(f.bytes, 1, k) ELSE <<>>

\* newline-free printable text of at most n characters
InBound(str, n) == Len(str) <= n /\ \A i \in 1..Len(str) : Printable(str[i])

\* every field and comment line of h is text of at most n characters
RecordInBound(h, n) ==
    /\ h.edlinecnt \in 0..MAXEDLINES
    /\ \A k \in 1..Len(Fields) : InBound(h[Fields[k]], n)
    /\ \A i \in 1..h.edlinecnt : InBound(h.edhist[i], n)

\* the same eight fields, the same count and the same comment lines in order
SameRecord(a, b) ==
    /\ \A k \in 1..Len(Fields) : a[Fields[k]] = b[Fields[k]]
    /\ a.edlinecnt = b.edlinecnt
    /\ \A i \in 1..b.edlinecnt : a.edhist[i] = b.edhist[i]

\* the resource holds what the last successful G_write_history wrote and
\* G_read_history has just read it
ReadBack == last.op = "read" /\ wrote.ok /\ file = FileOf(HistBytes(wrote.rec))

\* C5 as stated: a record whose fields and comment lines are printable text
\* that fits the RECORD_LEN bytes of a field (RECORD_LEN - 1 characters and
\* the terminator), with 0..MAXEDLINES comment lines, is read back after a
\* successful write with return value 0, the same eight fields, the same
\* count and the same comment lines in order.
C5_WriteReadRoundTrip ==
    ReadBack /\ RecordInBound(wrote.rec, RECORD_LEN - 1)
        => last.ret = 0 /\ SameRecord(hist, wrote.rec)

\* the round trip of records whose lines leave room for the newline in the
\* reader's buffer
RoundTripShortLines ==
    ReadBack /\ RecordInBound(wrote.rec, RECORD_LEN - 2)
        => last.ret = 0 /\ SameRecord(hist, wrote.rec)

NoFieldPopulated == \A k \in 1..Len(Fields) : hist[Fields[k]] = <<>>

\* C6 as stated: when the resource cannot be opened or holds fewer than
\* eight lines, G_read_history returns -1 and none of the eight fields of the
\* caller's record is left populated.
C6_NoPartialRecord ==
    last.op = "read" /\ (~file.exists \/ Len(LinesOf(file)) < Len(Fields))
        => last.ret = -1 /\ NoFieldPopulated

\* C6 amended: G_read_history returns -1 exactly when the resource cannot be
\* opened or one of its eight line reads finds the input exhausted; the
\* record was cleared on entry, the fields read before the missing line stay
\* populated with the sanitised lines, and the fields from the missing line
\* on and the comment count stay empty.
C6_FailedReadKeepsPrefix ==
    last.op = "read" =>
        LET recs == RecordsOf(file, Len(Fields))
        IN  /\ last.ret = (IF Len(recs) < Len(Fields) THEN -1 ELSE 0)
            /\ last.ret = -1 =>
                  /\ \A k \in 1..Len(Fields) :
                        hist[Fields[k]] =
                            IF k <= Len(recs) THEN G_ascii_check(recs[k])
                            ELSE <<>>
                  /\ hist.edlinecnt = 0
                  /\ \A i \in 1..MAXEDLINES : hist.edhist[i] = <<>>

\* a file that ends after some of its eight lines: the first field is
\* populated, the last is not
C6_Witness ==
    /\ last.op = "read" /\ last.ret = -1 /\ file.exists
    /\ Len(LinesOf(file)) < Len(Fields)
    /\ hist.mapid # <<>> /\ hist.keywrd = <<>>

\* C7: G_command_history on a record that already holds MAXEDLINES - 1
\* comment lines or more returns 1 and leaves the record as it was: the same
\* count, the same lines, no blank separator line added.
C7_NoRoomNothingAdded ==
    last.op = "command" /\ last.pre.edlinecnt >= MAXEDLINES - 1
        => last.ret = 1 /\ hist = last.pre

\* a log of exactly MAXEDLINES - 1 lines
C7_Witness ==
    /\ last.op = "command" /\ last.pre.edlinecnt = MAXEDLINES - 1
    /\ last.ret = 1 /\ hist.edlinecnt = MAXEDLINES - 1

\* the entries a call added after the separator
Payload ==
    LET n0 == last.pre.edlinecnt
        start == IF n0 > 0 THEN n0 + 1 ELSE 0
    IN  [i \in 1..Max(0, hist.edlinecnt - start) |-> hist.edhist[start + i]]

\* the entries joined again, the marker of every entry but the last removed
RECURSIVE Unwrap(_)
Unwrap(entries) ==
    IF Len(entries) <= 1 THEN (IF entries = <<>> THEN <<>> ELSE entries[1])
    ELSE SubSeq(entries[1], 1, Len(entries[1]) - 1) \o Unwrap(Tail(entries))

\* C8 as stated: when G_command_history returns 0 for a command c, the
\* earlier entries are unchanged, one empty entry separates them from the new
\* ones if there were any, and the new entries are c itself if c is shorter
\* than ONE_LINE characters, else slices of WRAP characters, each followed by
\* the marker, and a last entry, which joined without the markers give c.
C8_StoredAsGiven ==
    last.op = "command" /\ last.ret = 0 =>
        LET c == last.arg
            n0 == last.pre.edlinecnt
        IN  /\ \A i \in 1..n0 : hist.edhist[i] = last.pre.edhist[i]
            /\ n0 > 0 => hist.edlinecnt > n0 /\ hist.edhist[n0 + 1] = <<>>
            /\ IF Len(c) < ONE_LINE THEN Payload = <<c>>
               ELSE /\ Len(Payload) >= 1
                    /\ \A i \in 1..(Len(Payload) - 1) :
                          /\ Len(Payload[i]) = WRAP + 1
                          /\ Payload[i][WRAP + 1] = BACKSLASH
                    /\ Unwrap(Payload) = c

Absorbing ==
    last.op = "command" /\ last.failed => last.ret = 1 /\ hist = last.pre

LastEntryMarked ==
    /\ hist.edlinecnt >= 1
    /\ hist.edhist[hist.edlinecnt] # <<>>
    /\ hist.edhist[hist.edlinecnt][Len(hist.edhist[hist.edlinecnt])] = BACKSLASH

\* C10 as stated: once G_command_history has returned 1 or 2, every later
\* call on the record returns 1 and changes nothing; and whenever it returns
\* 2 the comment count is exactly MAXEDLINES - 1 and the last entry ends with
\* the marker.
C10_AbsorbingCountExact ==
    /\ Absorbing
    /\ last.op = "command" /\ last.ret = 2
          => hist.edlinecnt = MAXEDLINES - 1 /\ LastEntryMarked

\* C10 amended: once G_command_history has returned 1 or 2, every later call
\* on the record returns 1 and changes nothing; and whenever it returns 2 the
\* last entry ends with the marker and the comment count is MAXEDLINES - 1,
\* or MAXEDLINES when the log held MAXEDLINES - 2 entries before the call
\* (the separator and one slice fill it).
C10_AbsorbingCountAtEnd ==
    /\ Absorbing
    /\ last.op = "command" /\ last.ret = 2
          => /\ LastEntryMarked
             /\ hist.edlinecnt =
                   (IF last.pre.edlinecnt = MAXEDLINES - 2 THEN MAXEDLINES
                    ELSE MAXEDLINES - 1)

\* a call after one that returned 2 and left the log full
C10_Witness ==
    /\ last.op = "command" /\ last.failed /\ last.ret = 1
    /\ hist.edlinecnt = MAXEDLINES /\ LastEntryMarked

(***************************************************************************)
(*                 Conversions and the null of the result                  *)
(***************************************************************************)
\* the value a get_ routine returned is the null of its representation
ResultIsNull ==
    IF rop.op = "get_c" THEN G_is_c_null_value(rop.res)
    ELSE G_is_f_null_value(rop.res)

\* C11 as stated: a set_ routine given a source that is not the null of its
\* own representation leaves a cell that is not null in the destination
\* kind, and a get_ routine on a cell that is not null returns a value that
\* is not the null of the returned representation, also when the truncating
\* cast of a floating value gives the integer that is the CELL null.
C11_NoNullManufactured ==
    /\ rop.op \in SetOps /\ rop.type \in Kinds /\ ~SetArgIsNull
          => ~G_is_null_value(rast.cell.v, rop.type)
    /\ rop.op \in GetOps /\ rop.type \in Kinds
            /\ ~G_is_null_value(rop.arg, rop.type)
          => ~ResultIsNull
=============================================================================
